---- MODULE Spec2Model ----
(***************************************************************************)
(* KalorieSentiment: extraction and keyword filtering of Pushshift comment *)
(* dumps (src/utils/filter_pushshift_comments.py, the flat-list pipeline   *)
(* with its command line, and src/utils/filter_pushshift_data.py, the      *)
(* dual-set filter over src/filter_constants.py).                          *)
(*                                                                         *)
(* A Python str is a sequence of one-character strings.                    *)
(***************************************************************************)
EXTENDS Integers, Sequences, FiniteSets, TLC

VARIABLES
    pc,         \* position of the running function or script
    call,       \* arguments of the invocation (a record)
    ret,        \* value returned by the function under check
    cursor,     \* number of lines of the open file already read
    comments,   \* the comments extracted so far (comments, all_comments)
    diag,       \* number of 'Error decoding JSON' messages printed
    fs,         \* the file system: directories and the files in them
    json_data,  \* the driver's json_data
    io,         \* the file-system effects of the run so far
    exit_code   \* exit status of the script once it has ended

vars == <<pc, call, ret, cursor, comments, diag, fs, json_data, io, exit_code>>

None == "None"

----------------------------------------------------------------------------
(* Characters *)

UpperChars ==
    <<"A","B","C","D","E","F","G","H","I","J","K","L","M",
      "N","O","P","Q","R","S","T","U","V","W","X","Y","Z">>

LowerChars ==
    <<"a","b","c","d","e","f","g","h","i","j","k","l","m",
      "n","o","p","q","r","s","t","u","v","w","x","y","z">>

Digits == {"0","1","2","3","4","5","6","7","8","9"}

Range(s) == {s[i] : i \in 1..Len(s)}

\* str.lower() on one character
LowerChar(c) ==
    IF c \in Range(UpperChars)
    THEN LowerChars[CHOOSE i \in 1..Len(UpperChars) : UpperChars[i] = c]
    ELSE c

\* str.lower()
lower(s) == [i \in 1..Len(s) |-> LowerChar(s[i])]

\* the characters str.strip() removes (ASCII whitespace)
IsSpace(c) == c \in {" ", "\t", "\n", "\r", "\f"}

\* the regular expression class \w
IsWordChar(c) == c \in Range(UpperChars) \cup Range(LowerChars) \cup Digits \cup {"_"}

\* all strings over alphabet A of length at most n
StringsUpTo(A, n) == UNION {[1..k -> A] : k \in 0..n}

----------------------------------------------------------------------------
(* split_on_newlines *)

\* the least index i >= from with s[i] a newline, Len(s)+1 when there is none
FirstNewline(s, from) ==
    IF \E i \in from..Len(s) : s[i] = "\n"
    THEN CHOOSE i \in from..Len(s) : s[i] = "\n" /\ \A k \in from..(i-1) : s[k] /= "\n"
    ELSE Len(s) + 1

\* the least index i >= from with s[i] no newline, Len(s)+1 when there is none
FirstNonNewline(s, from) ==
    IF \E i \in from..Len(s) : s[i] /= "\n"
    THEN CHOOSE i \in from..Len(s) : s[i] /= "\n" /\ \A k \in from..(i-1) : s[k] = "\n"
    ELSE Len(s) + 1

\* re.split(r'\n+', s): the pieces between maximal runs of newlines, empty
\* leading and trailing pieces included
RECURSIVE re_split_newlines(_)
re_split_newlines(s) ==
    LET i == FirstNewline(s, 1)
    IN  IF i > Len(s)
        THEN <<s>>
        ELSE <<SubSeq(s, 1, i - 1)>>
             \o re_split_newlines(SubSeq(s, FirstNonNewline(s, i), Len(s)))

\* a plausible slip: only leading whitespace removed (str.lstrip)
lstrip_only(s) ==
    IF \A i \in 1..Len(s) : IsSpace(s[i])
    THEN <<>>
    ELSE SubSeq(s, CHOOSE i \in 1..Len(s) :
                        ~IsSpace(s[i]) /\ \A k \in 1..(i-1) : IsSpace(s[k]),
                Len(s))

\* str.strip()
strip(s) ==
    IF \A i \in 1..Len(s) : IsSpace(s[i])
    THEN <<>>
    ELSE LET a == CHOOSE i \in 1..Len(s) :
                      ~IsSpace(s[i]) /\ \A k \in 1..(i-1) : IsSpace(s[k])
             b == CHOOSE i \in 1..Len(s) :
                      ~IsSpace(s[i]) /\ \A k \in (i+1)..Len(s) : IsSpace(s[k])
         IN  SubSeq(s, a, b)

NonEmpty(s) == s /= <<>>

\* [part.strip() for part in re.split(r'\n+', comment) if part.strip()]
split_on_newlines(comment) ==
    LET parts == re_split_newlines(comment)
        kept  == SelectSeq(parts, LAMBDA part : NonEmpty(strip(part)))
    IN  [i \in 1..Len(kept) |-> strip(kept[i])]

----------------------------------------------------------------------------
(* matches_keyword and the flat-list filter (filter_pushshift_comments.py) *)

\* Python's `sub in s` on strings
IsSubstring(sub, s) ==
    \E i \in 0..(Len(s) - Len(sub)) : SubSeq(s, i + 1, i + Len(sub)) = sub

\* the least index i with s[i] whitespace, Len(s)+1 when there is none
FirstSpace(s) ==
    IF \E i \in 1..Len(s) : IsSpace(s[i])
    THEN CHOOSE i \in 1..Len(s) : IsSpace(s[i]) /\ \A k \in 1..(i-1) : ~IsSpace(s[k])
    ELSE Len(s) + 1

\* str.split() with no argument: the maximal whitespace-free stretches
RECURSIVE split_words(_)
split_words(s) ==
    LET t == strip(s)
        j == FirstSpace(t)
    IN  IF t = <<>>
        THEN <<>>
        ELSE <<SubSeq(t, 1, j - 1)>> \o split_words(SubSeq(t, j, Len(t)))

\* a plausible slip: any() for all() in the loose branch
matches_keyword_any_word(comment, keyword, loose_match) ==
    LET c == lower(comment)
        k == lower(keyword)
    IN  IF IsSubstring(k, c)
        THEN TRUE
        ELSE IF loose_match
             THEN LET words == split_words(k)
                  IN  \E i \in 1..Len(words) : IsSubstring(words[i], c)
             ELSE FALSE

\* matches_keyword(comment, keyword, loose_match)
matches_keyword(comment, keyword, loose_match) ==
    LET c == lower(comment)
        k == lower(keyword)
    IN  IF IsSubstring(k, c)
        THEN TRUE
        ELSE IF loose_match
             THEN LET words == split_words(k)
                  IN  \A i \in 1..Len(words) : IsSubstring(words[i], c)
             ELSE FALSE

\* the inner loop of filter_comments: one append per keyword that matches
RECURSIVE append_per_keyword(_, _, _, _)
append_per_keyword(filtered, comment, keywords, loose_match) ==
    IF keywords = <<>>
    THEN filtered
    ELSE append_per_keyword(
             IF matches_keyword(comment, Head(keywords), loose_match)
             THEN Append(filtered, comment)
             ELSE filtered,
             comment, Tail(keywords), loose_match)

RECURSIVE filter_loop(_, _, _, _)
filter_loop(filtered, comments_list, keywords, loose_match) ==
    IF comments_list = <<>>
    THEN filtered
    ELSE filter_loop(
             append_per_keyword(filtered, Head(comments_list), keywords, loose_match),
             Tail(comments_list), keywords, loose_match)

\* filter_comments(comments_list, keywords, loose_match) of the flat-list script
filter_comments(comments_list, keywords, loose_match) ==
    filter_loop(<<>>, comments_list, keywords, loose_match)

----------------------------------------------------------------------------
(* filter_constants.py: the tuples as Python builds them.  Adjacent string  *)
(* literals with no comma between them are one element.                    *)

DOMAIN_KEYWORDS ==
    <<
      <<"a","p","p">>,
      <<"m","f","p">>,
      <<"m","y","f","i","t","n","e","s","s","p","a","l">>,
      <<"l","o","s","e","i","t">>,
      <<"c","r","o","n","o","m","e","t","e","r">>,
      <<"m","a","c","r","o","f","a","c","t","o","r">>,
      <<"f","a","t","s","e","c","r","e","t">>,
      <<"m","y","n","e","t","d","i","a","r","y">>,
      <<"y","a","z","i","o">>,
      <<"l","i","f","e","s","u","m">>,
      <<"n","u","t","r","i","t","i","o","n","i","x">>
    >>

DOMAIN_FEATURE_KEYWORDS ==
    <<
      <<"m","a","c","r","o","n","u","t","r","i","e","n","t"," ","t","r","a","c","k","i","n","g">>,
      <<"m","a","c","r","o"," ","t","r","a","c","k","i","n","g">>,
      <<"m","a","c","r","o"," ","c","o","u","n","t","i","n","g">>,
      <<"m","a","c","r","o"," ","b","r","e","a","k","d","o","w","n">>,
      <<"m","a","c","r","o">>,
      <<"t","r","a","c","k"," ","m","a","c","r","o","m","i","c","r","o","n","u","t","r","i","e","n","t"," ","t","r","a","c","k","i","n","g">>,
      <<"m","i","c","r","o"," ","t","r","a","c","k","i","n","g">>,
      <<"v","i","t","a","m","i","n"," ","t","r","a","c","k","i","n","g">>,
      <<"m","i","n","e","r","a","l"," ","t","r","a","c","k","i","n","g">>,
      <<"m","i","c","r","o","n","u","t","r","i","e","n","t">>,
      <<"m","i","c","r","o">>,
      <<"t","r","a","c","k"," ","m","i","c","r","o","c","a","l","o","r","i","e"," ","c","o","u","n","t","i","n","g">>,
      <<"c","a","l","o","r","i","e"," ","t","r","a","c","k","i","n","g">>,
      <<"t","r","a","c","k"," ","c","a","l","o","r","i","e","f","o","o","d"," ","l","o","g","g","i","n","g">>,
      <<"f","o","o","d"," ","l","o","g">>,
      <<"f","o","o","d"," ","e","n","t","r","y">>,
      <<"r","e","c","i","p","e"," ","e","n","t","r","y">>,
      <<"m","e","a","l"," ","e","n","t","r","y">>,
      <<"a","d","d"," ","r","e","c","i","p","e">>,
      <<"a","d","d"," ","f","o","o","d">>,
      <<"r","e","c","i","p","e"," ","l","o","g","g","i","n","g">>,
      <<"m","e","a","l"," ","l","o","g","g","i","n","g">>,
      <<"r","e","c","o","r","d"," ","f","o","o","d">>,
      <<"r","e","c","o","r","d"," ","r","e","c","i","p","e">>,
      <<"r","e","c","o","r","d"," ","m","e","a","l">>,
      <<"f","o","o","d"," ","d","i","a","r","y">>,
      <<"b","a","r","c","o","d","e"," ","s","c","a","n","n","i","n","g">>,
      <<"b","a","r","c","o","d","e"," ","s","c","a","n","n","e","r">>,
      <<"s","c","a","n","n","e","r">>,
      <<"b","a","r","c","o","d","e">>,
      <<"s","c","a","n","n","i","n","g","d","a","t","a","b","a","s","e">>,
      <<"u","s","e","r"," ","s","u","b","m","i","t","t","e","d"," ","e","n","t","r","i","e","s">>,
      <<"e","n","t","r","i","e","s">>,
      <<"l","i","b","r","a","r","y">>,
      <<"f","o","o","d"," ","l","i","s","t">>,
      <<"m","e","a","l"," ","p","l","a","n","n","i","n","g">>,
      <<"m","e","a","l"," ","p","l","a","n">>,
      <<"p","l","a","n"," ","m","e","a","l","s">>,
      <<"d","i","a","r","y"," ","s","h","a","r","i","n","g">>,
      <<"i","n","t","a","k","e"," ","l","i","m","i","t">>,
      <<"c","a","l","o","r","i","e"," ","l","i","m","i","t">>,
      <<"d","a","i","l","y"," ","l","i","m","i","t">>,
      <<"w","e","e","k","l","y"," ","l","i","m","i","t">>,
      <<"e","x","e","r","c","i","s","e"," ","t","r","a","c","k","i","n","g">>,
      <<"w","o","r","k","o","u","t"," ","t","r","a","c","k","i","n","g">>,
      <<"e","x","e","r","c","i","s","e"," ","l","o","g","g","i","n","g">>,
      <<"w","o","r","k","o","u","t"," ","l","o","g","g","i","n","g">>,
      <<"f","i","t","n","e","s","s"," ","t","r","a","c","k","i","n","g">>,
      <<"t","r","a","c","k"," ","e","x","e","r","c","i","s","e">>,
      <<"t","r","a","c","k"," ","w","o","r","k","o","u","t">>,
      <<"w","e","i","g","h","t"," ","t","r","a","c","k","i","n","g">>,
      <<"w","e","i","g","h","t"," ","l","o","g">>,
      <<"w","e","i","g","h","t"," ","e","n","t","r","y">>,
      <<"w","e","i","g","h","t"," ","r","e","c","o","r","d","s">>,
      <<"t","r","a","c","k"," ","w","e","i","g","h","t","w","a","t","e","r"," ","t","r","a","c","k","i","n","g">>,
      <<"t","r","a","c","k"," ","w","a","t","e","r","g","o","a","l"," ","s","e","t","t","i","n","g">>,
      <<"s","e","t"," ","g","o","a","l","s">>,
      <<"s","e","t","t","i","n","g"," ","g","o","a","l","s">>,
      <<"c","u","s","t","o","m"," ","f","o","o","d">>,
      <<"c","r","e","a","t","e"," ","f","o","o","d">>,
      <<"c","u","s","t","o","m"," ","m","e","a","l">>,
      <<"c","r","e","a","t","e"," ","m","e","a","l">>,
      <<"c","u","s","t","o","m"," ","r","e","c","i","p","e">>,
      <<"r","e","c","i","p","e"," ","b","u","i","l","d","e","r">>,
      <<"c","r","e","a","t","e"," ","r","e","c","i","p","e">>,
      <<"c","u","s","t","o","m"," ","g","o","a","l","s">>,
      <<"g","o","a","l"," ","c","u","s","t","o","m","i","z","a","t","i","o","n">>,
      <<"c","r","e","a","t","e"," ","g","o","a","l","s","c","u","s","t","o","m"," ","e","x","e","r","c","i","s","e","s">>,
      <<"c","u","s","t","o","m"," ","w","o","r","k","o","u","t","s">>,
      <<"w","o","r","k","o","u","t"," ","c","u","s","t","o","m","i","z","a","t","i","o","n">>,
      <<"e","x","e","r","c","i","s","e"," ","c","u","s","t","o","m","i","z","a","t","i","o","n">>,
      <<"d","a","i","l","y"," ","s","u","m","m","a","r","y">>,
      <<"w","e","e","k","l","y"," ","s","u","m","m","a","r","y">>,
      <<"d","a","i","l","y"," ","b","r","e","a","k","d","o","w","n">>,
      <<"w","e","e","k","l","y"," ","b","r","e","a","k","d","o","w","n">>,
      <<"a","c","t","i","v","i","t","y"," ","s","y","n","c","i","n","g">>,
      <<"a","p","p"," ","s","y","n","c">>,
      <<"a","p","p"," ","i","n","t","e","g","r","a","t","i","o","n">>,
      <<"s","o","c","i","a","l"," ","m","e","d","i","a">>,
      <<"f","r","i","e","n","d","s">>,
      <<"r","e","m","i","n","d","e","r","s">>,
      <<"s","l","e","e","p"," ","t","r","a","c","k","i","n","g">>,
      <<"t","r","a","c","k"," ","s","l","e","e","p">>,
      <<"s","t","e","p"," ","t","r","a","c","k","i","n","g">>,
      <<"s","t","e","p"," ","t","r","a","c","k","e","r">>,
      <<"t","r","a","c","k"," ","s","t","e","p">>,
      <<"c","a","l","o","r","i","e"," ","b","u","r","n">>,
      <<"h","e","a","l","t","h"," ","i","n","s","i","g","h","t","s">>,
      <<"n","u","t","r","i","t","i","o","n"," ","i","n","s","i","g","h","t","s">>,
      <<"n","u","t","r","i","t","i","o","n"," ","b","r","e","a","k","d","o","w","n">>,
      <<"n","u","t","r","i","t","i","o","n"," ","s","t","r","a","t","e","g","i","e","s">>,
      <<"s","t","a","t","s">>,
      <<"s","t","r","a","t","e","g","i","e","s">>,
      <<"d","a","t","a"," ","i","n","s","i","g","h","t","s">>,
      <<"r","e","p","o","r","t","s">>,
      <<"a","r","t","i","f","i","c","i","a","l"," ","i","n","t","e","l","l","i","g","e","n","c","e">>,
      <<"a","i">>,
      <<"A","I">>,
      <<"o","f","f","l","i","n","e"," ","m","o","d","e">>,
      <<"o","f","f","l","i","n","e">>,
      <<"i","n","t","e","r","m","i","t","t","e","n","t"," ","f","a","s","t","i","n","g"," ","t","i","m","e","r">>,
      <<"f","a","s","t","i","n","g"," ","t","i","m","e","r">>,
      <<"f","a","s","t","i","n","g"," ","s","c","h","e","d","u","l","e">>,
      <<"f","a","s","t","i","n","g"," ","t","r","a","c","k","e","r">>,
      <<"w","e","e","k","l","y"," ","c","h","a","l","l","e","n","g","e","s">>,
      <<"a","c","h","i","e","v","e","m","e","n","t","s">>,
      <<"s","t","r","e","a","k","s">>,
      <<"c","h","a","l","l","e","n","g","e","s">>,
      <<"d","a","i","l","y"," ","c","h","a","l","l","e","n","g","e","s">>,
      <<"s","t","r","e","a","k">>
    >>

----------------------------------------------------------------------------
(* contains_phrase and the dual-set filter (filter_pushshift_data.py) *)

\* the assertion \b between s[p] and s[p+1] (p = 0: before the first
\* character, p = Len(s): after the last)
WordBoundaryAt(s, p) ==
    (p >= 1 /\ IsWordChar(s[p])) /= (p < Len(s) /\ IsWordChar(s[p + 1]))

\* a plausible slip: the pattern without its \b anchors
search_unanchored(phrase, comment) ==
    IsSubstring(lower(phrase), lower(comment))

\* re.search(r'\b' + re.escape(phrase) + r'\b', comment, flags=re.IGNORECASE):
\* the escaped phrase matches itself, letter case ignored
search_whole_word(phrase, comment) ==
    \E i \in 0..(Len(comment) - Len(phrase)) :
        /\ WordBoundaryAt(comment, i)
        /\ lower(SubSeq(comment, i + 1, i + Len(phrase))) = lower(phrase)
        /\ WordBoundaryAt(comment, i + Len(phrase))

\* contains_phrase(comment, phrases)
contains_phrase(comment, phrases) ==
    \E n \in 1..Len(phrases) : search_whole_word(phrases[n], comment)

\* filter_comments(data, domain_keywords, domain_feature_keywords) of the
\* dual-set script
data_filter_comments(data, domain_keywords, domain_feature_keywords) ==
    SelectSeq(data, LAMBDA entry :
        /\ contains_phrase(entry, domain_keywords)
        /\ contains_phrase(entry, domain_feature_keywords))

----------------------------------------------------------------------------
(* process_comments_from_file (filter_pushshift_comments.py)               *)
(*                                                                         *)
(* A line of a file is what json.loads makes of it: json = FALSE when it   *)
(* raises JSONDecodeError, else data is the decoded object, a record with  *)
(* the keys the object has.                                                *)

\* the default of bot_author
BotAuthor == "AutoModerator"

DailyThreads == <<"d","a","i","l","y"," ","t","h","r","e","a","d","s">>

\* a plausible slip: the body is searched without lower()
keeps_record_case_sensitive(data, bot_author) ==
    /\ data.author /= bot_author
    /\ ~IsSubstring(DailyThreads, data.body)

\* data['author'] != bot_author and 'daily threads' not in comment.lower()
keeps_record(data, bot_author) ==
    /\ data.author /= bot_author
    /\ ~IsSubstring(DailyThreads, lower(data.body))

\* a plausible slip: the decode error is not caught and ends the function
decode_error_propagates(acc) == [acc EXCEPT !.raised = "JSONDecodeError"]

\* except json.JSONDecodeError: print(...)
on_decode_error(acc) == [acc EXCEPT !.diag = @ + 1]

\* one pass of the body of `for line in fp`; acc holds the comments so far, the
\* number of messages printed, and the exception that left the function
process_line(acc, line, bot_author) ==
    IF ~line.json
    THEN on_decode_error(acc)
    ELSE IF "body" \notin DOMAIN line.data \/ "author" \notin DOMAIN line.data
         THEN [acc EXCEPT !.raised = "KeyError"]
         ELSE IF keeps_record(line.data, bot_author)
              THEN [acc EXCEPT !.comments = @ \o split_on_newlines(line.data.body)]
              ELSE acc

RECURSIVE process_lines(_, _, _)
process_lines(acc, lines, bot_author) ==
    IF lines = <<>> \/ acc.raised /= None
    THEN acc
    ELSE process_lines(process_line(acc, Head(lines), bot_author), Tail(lines), bot_author)

\* process_comments_from_file(file_path, bot_author), on the lines of the file
process_comments_from_file(lines, bot_author) ==
    process_lines([comments |-> <<>>, diag |-> 0, raised |-> None], lines, bot_author)

----------------------------------------------------------------------------
(* The command-line script of filter_pushshift_comments.py                 *)
(*                                                                         *)
(* A directory is the sequence of its names from the root.  A path given   *)
(* on the command line is relative to the working directory: its names,    *)
(* and whether it is written with a trailing separator.  fs.dirs are the   *)
(* directories that exist, fs.files the line files (archives and           *)
(* decompressed files) and fs.out the text files written.                  *)

Cwd == <<"w">>

\* os.path.abspath(path): joined to the working directory and normalised,
\* which drops a trailing separator
abspath(path) == Cwd \o path.comps

\* os.path.basename(path): what follows the last separator
basename(path) == IF path.trail THEN "" ELSE path.comps[Len(path.comps)]

\* os.path.dirname of an absolute, normalised path
dirname(dir) == SubSeq(dir, 1, Len(dir) - 1)

\* the directory os.path.join(dir, name) names; joining '' only adds a separator
join(dir, name) == IF name = "" THEN dir ELSE Append(dir, name)

\* os.path.exists
exists(files, dir) == dir \in files.dirs

\* item.endswith(extension)
endswith(item, extension) ==
    /\ Len(item) >= Len(extension)
    /\ SubSeq(item, Len(item) - Len(extension) + 1, Len(item)) = extension

\* item.replace(old, ''): every occurrence of old removed, left to right
RECURSIVE remove_all(_, _)
remove_all(item, old) ==
    IF Len(item) < Len(old)
    THEN item
    ELSE IF SubSeq(item, 1, Len(old)) = old
         THEN remove_all(SubSeq(item, Len(old) + 1, Len(item)), old)
         ELSE <<Head(item)>> \o remove_all(Tail(item), old)

ZstExtension == <<".","z","s","t">>
CommentsMarker == <<"_","c","o","m","m","e","n","t","s",".","z","s","t">>

\* a plausible slip: the existence check left out
never_raises(files, dir_path) == FALSE

\* if not os.path.exists(dir_path): raise NameError
raises_NameError(files, dir_path) == ~exists(files, abspath(dir_path))

\* output_dir of decompress_zst_files
decompress_output_dir(dir_path, output_path) ==
    join(dirname(abspath(dir_path)), basename(output_path))

\* comments_dir of decompress_zst_files
decompress_comments_dir(dir_path, output_path) ==
    join(decompress_output_dir(dir_path, output_path), "comments")

\* the archives of dir_path the loop decompresses
comment_archives(files, dir_path) ==
    { f \in files.files :
        /\ f.dir = abspath(dir_path)
        /\ endswith(f.name, ZstExtension)
        /\ IsSubstring(CommentsMarker, f.name) }

\* decompress_zst_files(dir_path, output_path) when dir_path exists: the file
\* system it leaves
decompress_zst_files(files, dir_path, output_path) ==
    LET output_dir   == decompress_output_dir(dir_path, output_path)
        comments_dir == decompress_comments_dir(dir_path, output_path)
        written      == { [dir |-> comments_dir,
                           name |-> remove_all(f.name, ZstExtension),
                           lines |-> f.lines] : f \in comment_archives(files, dir_path) }
        replaced     == { g \in files.files :
                            \E w \in written : w.dir = g.dir /\ w.name = g.name }
    IN  [files EXCEPT !.dirs = @ \cup {output_dir, comments_dir},
                      !.files = (@ \ replaced) \cup written]

\* what decompress_zst_files does to the file system, as a set of effects
decompress_effects(files, dir_path, output_path) ==
    LET output_dir   == decompress_output_dir(dir_path, output_path)
        comments_dir == decompress_comments_dir(dir_path, output_path)
    IN  (IF exists(files, output_dir) THEN {} ELSE {<<"mkdir", output_dir>>})
        \cup (IF exists(files, comments_dir) THEN {} ELSE {<<"makedirs", comments_dir>>})
        \cup UNION { { <<"read", f.dir, f.name>>,
                       <<"write", comments_dir, remove_all(f.name, ZstExtension)>> } :
                     f \in comment_archives(files, dir_path) }

\* an option that was not given (args.output is None) or given as ''
NoPath == [comps |-> <<>>, trail |-> FALSE]

\* output_dir of the script: args.output if args.output else args.input
main_output_dir(args) == IF args.output /= NoPath THEN args.output ELSE args.input

\* comments_dir of the script, os.path.join(output_dir, 'comments'), as the
\* directory os.listdir resolves it to
main_comments_dir(args) == join(abspath(main_output_dir(args)), "comments")

\* arg.split(',')
RECURSIVE _list_of_strings(_)
_list_of_strings(arg) ==
    IF \E i \in 1..Len(arg) : arg[i] = ","
    THEN LET i == CHOOSE i \in 1..Len(arg) :
                      arg[i] = "," /\ \A k \in 1..(i-1) : arg[k] /= ","
         IN  <<SubSeq(arg, 1, i - 1)>> \o _list_of_strings(SubSeq(arg, i + 1, Len(arg)))
    ELSE <<arg>>

\* process_comments_from_folder(folder_path) with the files in listing order
RECURSIVE process_comments_from_folder(_)
process_comments_from_folder(listing) ==
    IF listing = <<>>
    THEN [comments |-> <<>>, diag |-> 0, raised |-> None]
    ELSE LET one  == process_comments_from_file(Head(listing).lines, BotAuthor)
             rest == process_comments_from_folder(Tail(listing))
         IN  IF one.raised /= None
             THEN one
             ELSE [comments |-> one.comments \o rest.comments,
                   diag |-> one.diag + rest.diag,
                   raised |-> rest.raised]

\* the name of the output file
json_file(args) ==
    IF args.json_file_name = <<>>
    THEN <<"e","x","t","r","a","c","t","e","d","_","c","o","m","m","e","n","t","s",".","j","s","o","n">>
    ELSE args.json_file_name \o <<".","j","s","o","n">>

----------------------------------------------------------------------------
(* process_comments_from_file and process_comments_from_folder             *)
(* (filter_pushshift_data.py)                                              *)

\* len(x.split())
word_count(x) == Len(split_words(x))

\* the elements with n words, then those with fewer, each group in the order
\* of the tuple: Python's sort is stable, also with reverse=True
RECURSIVE by_word_count_from(_, _)
by_word_count_from(phrases, n) ==
    IF n < 0
    THEN <<>>
    ELSE SelectSeq(phrases, LAMBDA x : word_count(x) = n)
         \o by_word_count_from(phrases, n - 1)

\* sorted(phrases, key=lambda x: len(x.split()), reverse=True)
sorted_by_word_count(phrases) ==
    LET counts == {word_count(phrases[i]) : i \in 1..Len(phrases)}
    IN  IF counts = {}
        THEN <<>>
        ELSE by_word_count_from(phrases, CHOOSE n \in counts : \A k \in counts : k <= n)

sorted_feature_keywords == sorted_by_word_count(DOMAIN_FEATURE_KEYWORDS)

\* process_comments_from_file(file_path, bot_author) of the dual-set script:
\* the same line loop as the flat-list script, then the filter
data_process_comments_from_file(lines, bot_author) ==
    LET read == process_comments_from_file(lines, bot_author)
    IN  IF read.raised /= None
        THEN read
        ELSE [read EXCEPT !.comments =
                  data_filter_comments(@, DOMAIN_KEYWORDS, sorted_feature_keywords)]

\* a plausible slip: comments already collected are not added again
extend_unseen(all_comments, new_comments) ==
    all_comments \o SelectSeq(new_comments, LAMBDA c : c \notin Range(all_comments))

\* all_comments.extend(comments)
extend(all_comments, new_comments) == all_comments \o new_comments

----------------------------------------------------------------------------
(* Idle values of the state a specification does not use *)

NoFs == [dirs |-> {}, files |-> {}, out |-> {}]

PureIdle ==
    /\ cursor = 0
    /\ comments = <<>>
    /\ diag = 0
    /\ fs = NoFs
    /\ json_data = <<>>
    /\ io = {}
    /\ exit_code = None

PureUnchanged == UNCHANGED <<cursor, comments, diag, fs, json_data, io, exit_code>>

----------------------------------------------------------------------------
(* SpecSplit: split_on_newlines applied to every bounded body *)

MaxBodyLen == 4

BodyChars == {"a", "b", " ", "\t", "\n"}

\* the body of the specification's round-trip example, "a\n\nb\n c "
ExampleBody == <<"a", "\n", "\n", "b", "\n", " ", "c", " ">>

Bodies == StringsUpTo(BodyChars, MaxBodyLen) \cup {ExampleBody}

SplitInit ==
    /\ pc = "call"
    /\ call \in [comment : Bodies]
    /\ ret = None
    /\ PureIdle

SplitCall ==
    /\ pc = "call"
    /\ ret' = split_on_newlines(call.comment)
    /\ pc' = "done"
    /\ UNCHANGED call
    /\ PureUnchanged

SplitNext == SplitCall

SpecSplit == SplitInit /\ [][SplitNext]_vars

\* The maximal newline-free stretches of s that hold a non-whitespace
\* character, each cut down to its first and last non-whitespace character,
\* as pairs of indices.
TrimmedRuns(s) ==
    LET n == Len(s)
        IsRun(i, j) ==
            /\ i <= j
            /\ \A k \in i..j : s[k] /= "\n"
            /\ (i = 1 \/ s[i-1] = "\n")
            /\ (j = n \/ s[j+1] = "\n")
        Solid(i, j) == {k \in i..j : ~IsSpace(s[k])}
        Min(S) == CHOOSE x \in S : \A y \in S : x <= y
        Max(S) == CHOOSE x \in S : \A y \in S : x >= y
    IN  { <<Min(Solid(r[1], r[2])), Max(Solid(r[1], r[2]))>> :
            r \in {q \in (1..n) \X (1..n) : IsRun(q[1], q[2]) /\ Solid(q[1], q[2]) /= {}} }

\* the trimmed runs in left-to-right order, as strings
ExpectedFragments(s) ==
    LET R == TrimmedRuns(s)
        Nth(k) == CHOOSE r \in R : Cardinality({q \in R : q[1] < r[1]}) = k - 1
    IN  [k \in 1..Cardinality(R) |-> SubSeq(s, Nth(k)[1], Nth(k)[2])]

\* C7: split_on_newlines returns, in left-to-right order, the pieces between
\* runs of newlines, each trimmed, empty and whitespace-only pieces dropped; no
\* fragment is empty, whitespace-only or holds a newline; "a\n\nb\n c " gives
\* ["a", "b", "c"].
C7_SplitFragments ==
    pc = "done" =>
        /\ ret = ExpectedFragments(call.comment)
        /\ \A i \in 1..Len(ret) :
              /\ ret[i] /= <<>>
              /\ \E k \in 1..Len(ret[i]) : ~IsSpace(ret[i][k])
              /\ \A k \in 1..Len(ret[i]) : ret[i][k] /= "\n"
              /\ ~IsSpace(ret[i][1]) /\ ~IsSpace(ret[i][Len(ret[i])])
        /\ (call.comment = ExampleBody => ret = << <<"a">>, <<"b">>, <<"c">> >>)

\* a body with a run of two newlines, a whitespace-only piece and a piece that
\* needs trimming has been split
C7_Witness ==
    /\ pc = "done"
    /\ call.comment = ExampleBody
    /\ Len(ret) = 3

----------------------------------------------------------------------------
(* Texts the bounded specifications draw their inputs from *)

MaxTokens == 3

Tokens == { <<"m","f","p">>, <<"A","i">>, <<"m","a","c","r","o">>, <<" ">>, <<"s">>, <<"-">> }

\* every concatenation of at most n tokens
RECURSIVE TokenStrings(_)
TokenStrings(n) ==
    IF n = 0
    THEN {<<>>}
    ELSE LET P == TokenStrings(n - 1)
         IN  P \cup {p \o tok : p \in P, tok \in Tokens}

\* the fragments of the specification's examples
SaidHi == <<"s","a","i","d"," ","h","i">>
MacroIntake == <<"I"," ","t","r","a","c","k"," ","m","y"," ","m","a","c","r","o"," ","i","n","t","a","k","e">>
GoalsWeekly == <<"I"," ","s","e","t"," ","m","y"," ","g","o","a","l","s"," ","w","e","e","k","l","y">>
SetGoals == <<"I"," ","s","e","t"," ","g","o","a","l","s">>
LoveMfp == <<"I"," ","l","o","v","e"," ","m","a","c","r","o"," ","t","r","a","c","k","i","n","g"," ","o","n"," ","M","y","F","i","t","n","e","s","s","P","a","l">>

\* whole-word occurrence, stated on the text: some occurrence of the phrase,
\* letter case ignored, has no word character right before it and none right
\* after it
WholeWordOccurs(text, phrase) ==
    \E i \in 0..(Len(text) - Len(phrase)) :
        /\ \A k \in 1..Len(phrase) : LowerChar(text[i + k]) = LowerChar(phrase[k])
        /\ (i = 0 \/ ~IsWordChar(text[i]))
        /\ (i + Len(phrase) = Len(text) \/ ~IsWordChar(text[i + Len(phrase) + 1]))

----------------------------------------------------------------------------
(* SpecMatch: matches_keyword applied to bounded comments and keywords *)

MatchComments ==
    TokenStrings(MaxTokens) \cup {SaidHi, MacroIntake, GoalsWeekly, SetGoals}

MatchKeywords ==
    { <<"a","i">>, <<"A","I">>, <<"m","a","c","r","o">>, <<"m","f","p">>, <<"s">>, <<"m","f","p"," ","m","a","c","r","o">>, <<"m","a","c","r","o"," "," ","a","i">>, <<"w","e","e","k","l","y"," ","g","o","a","l","s">>, <<" ">>, <<>>,
      <<" ","a","i">>, <<"g","o","a","l","s"," ">> }

MatchInit ==
    /\ pc = "call"
    /\ call \in [comment : MatchComments, keyword : MatchKeywords, loose_match : BOOLEAN]
    /\ ret = None
    /\ PureIdle

MatchCall ==
    /\ pc = "call"
    /\ ret' = matches_keyword(call.comment, call.keyword, call.loose_match)
    /\ pc' = "done"
    /\ UNCHANGED call
    /\ PureUnchanged

MatchNext == MatchCall

SpecMatch == MatchInit /\ [][MatchNext]_vars

\* a phrase made of words: it starts and ends with a word character
IsPhrase(keyword) ==
    /\ keyword /= <<>>
    /\ IsWordChar(keyword[1])
    /\ IsWordChar(keyword[Len(keyword)])

\* C2: with loose_match=False, matches_keyword is True only if the phrase
\* occurs in the fragment as a contiguous, case-insensitive sequence bounded by
\* word boundaries at both ends: "ai" in "said hi" gives False, "macro" in
\* "I track my macro intake" gives True.  Stated for phrases made of words.
C2_ExactIsWholeWord ==
    (pc = "done" /\ ~call.loose_match /\ IsPhrase(call.keyword)) =>
        /\ (ret = TRUE => WholeWordOccurs(call.comment, call.keyword))
        /\ (call.comment = SaidHi /\ call.keyword = <<"a","i">> => ret = FALSE)
        /\ (call.comment = MacroIntake /\ call.keyword = <<"m","a","c","r","o">> => ret = TRUE)

\* the words of a phrase: its maximal whitespace-free stretches, as pairs of
\* indices
WordsOf(phrase) ==
    LET n == Len(phrase)
    IN  { w \in (1..n) \X (1..n) :
            /\ w[1] <= w[2]
            /\ \A k \in w[1]..w[2] : ~IsSpace(phrase[k])
            /\ (w[1] = 1 \/ IsSpace(phrase[w[1] - 1]))
            /\ (w[2] = n \/ IsSpace(phrase[w[2] + 1])) }

\* every word of the phrase occurs somewhere in the text, letter case ignored
AllWordsOccur(text, phrase) ==
    \A w \in WordsOf(phrase) :
        \E i \in 0..(Len(text) - (w[2] - w[1] + 1)) :
            \A k \in 0..(w[2] - w[1]) :
                LowerChar(text[i + k + 1]) = LowerChar(phrase[w[1] + k])

\* the phrase is one word and nothing else: no whitespace before or after it
IsBareWord(phrase) ==
    phrase /= <<>> /\ \A k \in 1..Len(phrase) : ~IsSpace(phrase[k])

LooseExamples ==
    /\ (call.comment = GoalsWeekly /\ call.keyword = <<"w","e","e","k","l","y"," ","g","o","a","l","s">> => ret = TRUE)
    /\ (call.comment = SetGoals /\ call.keyword = <<"w","e","e","k","l","y"," ","g","o","a","l","s">> => ret = FALSE)

\* C11 as stated: with loose_match=True the result is True if and only if the
\* exact check succeeds or every whitespace-separated word of the phrase occurs
\* in the fragment as a case-insensitive substring; for a phrase of one word the
\* loose result equals the exact result.
C11_LooseMatchAnySingleWord ==
    (pc = "done" /\ call.loose_match) =>
        /\ ret = ( \/ matches_keyword(call.comment, call.keyword, FALSE)
                   \/ AllWordsOccur(call.comment, call.keyword) )
        /\ LooseExamples
        /\ (Cardinality(WordsOf(call.keyword)) = 1 =>
                ret = matches_keyword(call.comment, call.keyword, FALSE))

\* C11, for bare words: as above, with the loose result equal to the exact
\* result for a phrase that is one word written with no whitespace around it.
C11_LooseMatch ==
    (pc = "done" /\ call.loose_match) =>
        /\ ret = ( \/ matches_keyword(call.comment, call.keyword, FALSE)
                   \/ AllWordsOccur(call.comment, call.keyword) )
        /\ LooseExamples
        /\ (IsBareWord(call.keyword) =>
                ret = matches_keyword(call.comment, call.keyword, FALSE))

\* the loose call has found "weekly goals" in a fragment that holds its words
\* in the other order, where the exact check fails
C11_Witness ==
    /\ pc = "done"
    /\ call.loose_match
    /\ call.comment = GoalsWeekly
    /\ call.keyword = <<"w","e","e","k","l","y"," ","g","o","a","l","s">>
    /\ ret = TRUE
    /\ ~matches_keyword(call.comment, call.keyword, FALSE)

----------------------------------------------------------------------------
(* SpecFilter: both Keyword Filter variants, each applied to a fragment    *)
(* list and then to its own result                                         *)

MaxFrags == 3

\* fragments with a domain keyword only, a feature phrase only, both, both in
\* the other order and letter case, and a domain keyword inside a longer word
ListFragments ==
    { <<"m","f","p">>, <<"m","a","c","r","o">>, <<"m","f","p"," ","m","a","c","r","o">>, <<"A","i"," ","M","F","P">>, <<"s","m","f","p"," ","m","a","c","r","o">> }

FragmentLists ==
    StringsUpTo(ListFragments, MaxFrags)
    \cup {<<f>> : f \in TokenStrings(MaxTokens) \cup {LoveMfp}}

\* keyword lists as --keywords gives them
KeywordLists ==
    { <<>>, << <<"a","i">> >>, << <<"m","a","c","r","o">>, <<"m","f","p">> >>, << <<"m","f","p"," ","m","a","c","r","o">> >>,
      << <<"m","a","c","r","o">>, <<"M","a","c","r","o">> >>, << <<"s">>, <<"x">> >> }

\* phrase sets of the dual-set filter: the production tuples, and a short
\* pair substituted for them
PhraseSetPairs ==
    { <<DOMAIN_KEYWORDS, DOMAIN_FEATURE_KEYWORDS>>,
      << << <<"m","f","p">> >>, << <<"m","a","c","r","o"," ","t","r","a","c","k","i","n","g">>, <<"a","i">> >> >> }

FlatCalls ==
    { [variant |-> "flat", comments_list |-> l, keywords |-> k, loose_match |-> b] :
        l \in FragmentLists, k \in KeywordLists, b \in BOOLEAN }

DualCalls ==
    { [variant |-> "dual", data |-> l,
       domain_keywords |-> pp[1], domain_feature_keywords |-> pp[2]] :
        l \in FragmentLists, pp \in PhraseSetPairs }

FilterInit ==
    /\ pc = "call"
    /\ call \in FlatCalls \cup DualCalls
    /\ ret = None
    /\ PureIdle

\* filter_comments(comments_list, keywords, loose_match)
FlatFilter ==
    /\ pc = "call"
    /\ call.variant = "flat"
    /\ ret' = filter_comments(call.comments_list, call.keywords, call.loose_match)
    /\ pc' = "once"
    /\ UNCHANGED call
    /\ PureUnchanged

\* the same call on the list the first call returned
FlatRefilter ==
    /\ pc = "once"
    /\ call.variant = "flat"
    /\ call' = [call EXCEPT !.comments_list = ret]
    /\ ret' = filter_comments(ret, call.keywords, call.loose_match)
    /\ pc' = "twice"
    /\ PureUnchanged

\* filter_comments(data, domain_keywords, domain_feature_keywords)
DualFilter ==
    /\ pc = "call"
    /\ call.variant = "dual"
    /\ ret' = data_filter_comments(call.data, call.domain_keywords,
                                   call.domain_feature_keywords)
    /\ pc' = "once"
    /\ UNCHANGED call
    /\ PureUnchanged

\* the same call on the list the first call returned
DualRefilter ==
    /\ pc = "once"
    /\ call.variant = "dual"
    /\ call' = [call EXCEPT !.data = ret]
    /\ ret' = data_filter_comments(ret, call.domain_keywords,
                                   call.domain_feature_keywords)
    /\ pc' = "twice"
    /\ PureUnchanged

FilterNext == FlatFilter \/ FlatRefilter \/ DualFilter \/ DualRefilter

SpecFilter == FilterInit /\ [][FilterNext]_vars

MatchesSome(comment, keywords, loose_match) ==
    \E n \in 1..Len(keywords) : matches_keyword(comment, keywords[n], loose_match)

\* C1: the flat-list filter returns each input fragment occurrence exactly
\* once if it matches at least one keyword and not at all otherwise, also when
\* it matches several keywords: the result is the input list with the
\* non-matching occurrences removed.
C1_RetainedExactlyOnce ==
    (pc = "once" /\ call.variant = "flat") =>
        ret = SelectSeq(call.comments_list,
                        LAMBDA c : MatchesSome(c, call.keywords, call.loose_match))

\* C3: the dual-set filter keeps a fragment if and only if a domain keyword
\* and a feature phrase both occur in it as case-insensitive whole words, once
\* per input occurrence and in input order.
C3_DualSetAnd ==
    (pc = "once" /\ call.variant = "dual") =>
        ret = SelectSeq(call.data, LAMBDA f :
                  /\ \E n \in 1..Len(call.domain_keywords) :
                         WholeWordOccurs(f, call.domain_keywords[n])
                  /\ \E n \in 1..Len(call.domain_feature_keywords) :
                         WholeWordOccurs(f, call.domain_feature_keywords[n]))

\* the dual-set filter with the production tuples has dropped a fragment with
\* a domain keyword only and one with a feature phrase only, and kept the one
\* with both
C3_Witness ==
    /\ pc = "once"
    /\ call.variant = "dual"
    /\ call.domain_keywords = DOMAIN_KEYWORDS
    /\ call.data = << <<"m","f","p">>, <<"m","f","p"," ","m","a","c","r","o">>, <<"m","a","c","r","o">> >>
    /\ ret = << <<"m","f","p"," ","m","a","c","r","o">> >>

\* C5: filtering an already filtered list with the same phrase sets returns
\* it unchanged, for the flat-list filter and for the dual-set filter.
C5_Idempotent ==
    pc = "twice" =>
        ret = (IF call.variant = "flat" THEN call.comments_list ELSE call.data)

----------------------------------------------------------------------------
(* SpecExtract: process_comments_from_file read line by line *)

MaxLines == 3

Record(author, body) == [json |-> TRUE, data |-> [author |-> author, body |-> body]]

\* a bot record, a record naming the daily threads in mixed case, two ordinary
\* records, a line that is not JSON, and two JSON objects that are not Raw
\* Records
BotLine == Record(BotAuthor, <<"x","\n","y">>)
DailyLine == Record("alice", <<"t","h","e"," ","D","a","i","l","y"," ","T","h","r","e","a","d","s","\n","z">>)
PlainLine == Record("alice", <<"a","\n","\n","b">>)
LowerBotLine == Record("automoderator", <<" ","c"," ","\n">>)
MalformedLine == [json |-> FALSE]
EmptyObjectLine == [json |-> TRUE, data |-> [id |-> "t1"]]
NoAuthorLine == [json |-> TRUE, data |-> [body |-> <<"d">>]]

ExtractLines ==
    { BotLine, DailyLine, PlainLine, LowerBotLine, MalformedLine,
      EmptyObjectLine, NoAuthorLine }

ExtractInit ==
    /\ pc = "reading"
    /\ call \in [file : StringsUpTo(ExtractLines, MaxLines),
                 bot_author : {BotAuthor, "alice"}]
    /\ ret = None
    /\ cursor = 0
    /\ comments = <<>>
    /\ diag = 0
    /\ fs = NoFs
    /\ json_data = <<>>
    /\ io = {}
    /\ exit_code = None

\* the next line of the file goes through the loop body
ExtractLine ==
    /\ pc = "reading"
    /\ cursor < Len(call.file)
    /\ LET acc == process_line([comments |-> comments, diag |-> diag, raised |-> None],
                               call.file[cursor + 1], call.bot_author)
       IN  /\ comments' = acc.comments
           /\ diag' = acc.diag
           /\ IF acc.raised = None
              THEN pc' = "reading" /\ cursor' = cursor + 1 /\ ret' = ret
              ELSE pc' = "raised" /\ cursor' = cursor /\ ret' = acc.raised
    /\ UNCHANGED <<call, fs, json_data, io, exit_code>>

\* end of file: return comments
ExtractReturn ==
    /\ pc = "reading"
    /\ cursor = Len(call.file)
    /\ ret' = comments
    /\ pc' = "done"
    /\ UNCHANGED <<call, cursor, comments, diag, fs, json_data, io, exit_code>>

ExtractNext == ExtractLine \/ ExtractReturn

SpecExtract == ExtractInit /\ [][ExtractNext]_vars

\* a Raw Record: a decoded object with its author and its body
IsRawRecord(line) ==
    line.json /\ "body" \in DOMAIN line.data /\ "author" \in DOMAIN line.data

\* the body holds "daily threads" in some letter case
MentionsDailyThreads(body) ==
    \E i \in 0..(Len(body) - Len(DailyThreads)) :
        \A k \in 1..Len(DailyThreads) : LowerChar(body[i + k]) = DailyThreads[k]

\* what the claims say a line adds to the output
Contribution(line, bot_author) ==
    IF /\ IsRawRecord(line)
       /\ line.data.author /= bot_author
       /\ ~MentionsDailyThreads(line.data.body)
    THEN split_on_newlines(line.data.body)
    ELSE <<>>

RECURSIVE Contributions(_, _)
Contributions(lines, bot_author) ==
    IF lines = <<>>
    THEN <<>>
    ELSE Contribution(Head(lines), bot_author) \o Contributions(Tail(lines), bot_author)

\* C6: a Raw Record adds nothing to the extractor's output if its author is the
\* bot author or its body holds "daily threads" in any letter case; every other
\* Raw Record adds all the fragments of its body, in order.
C6_ExtractorExclusion ==
    pc \in {"reading", "done"} =>
        /\ comments = Contributions(SubSeq(call.file, 1, cursor), call.bot_author)
        /\ (pc = "done" => cursor = Len(call.file) /\ ret = comments)

\* a file with a bot record, an ordinary record and a daily-threads record has
\* been read to its end
C6_Witness ==
    /\ pc = "done"
    /\ call.bot_author = BotAuthor
    /\ call.file = <<BotLine, PlainLine, DailyLine>>
    /\ ret = << <<"a">>, <<"b">> >>

\* C8: a line that fails JSON decoding adds no fragment and one diagnostic,
\* and reading goes on with the next line: what was collected before is kept,
\* the later lines are still extracted in file order, so the result is that of
\* the file without its malformed lines.
C8_MalformedLineSkipped ==
    LET read      == SubSeq(call.file, 1, cursor)
        malformed == SelectSeq(read, LAMBDA l : ~l.json)
        decodable == SelectSeq(read, LAMBDA l : l.json)
    IN  /\ pc \in {"reading", "done"} =>
              /\ diag = Len(malformed)
              /\ comments = process_comments_from_file(decodable, call.bot_author).comments
        /\ pc = "raised" => call.file[cursor + 1].json
        /\ pc = "done" => cursor = Len(call.file) /\ ret = comments

\* a file with a malformed line between two ordinary records has been read to
\* its end
C8_Witness ==
    /\ pc = "done"
    /\ call.bot_author = BotAuthor
    /\ call.file = <<PlainLine, MalformedLine, LowerBotLine>>
    /\ diag = 1
    /\ ret = << <<"a">>, <<"b">>, <<"c">> >>

----------------------------------------------------------------------------
(* SpecFolder: process_comments_from_folder of the dual-set script, file   *)
(* by file in the order of the listing                                     *)

MaxFiles == 3

\* files of a comments directory: fragments that pass and fail the filter, a
\* fragment that also occurs in another file, a malformed line, a bot record,
\* and a decoded line that is no Raw Record
FolderFiles ==
    { << Record("alice", <<"m","f","p"," ","m","a","c","r","o","\n","h","e","l","l","o","\n","A","i"," ","M","F","P">>) >>,
      << Record("bob", <<"m","f","p"," ","m","a","c","r","o">>), MalformedLine, Record("bob", <<"m","a","c","r","o">>) >>,
      << Record(BotAuthor, <<"m","f","p"," ","m","a","c","r","o">>) >>,
      << Record("alice", <<"s","m","f","p"," ","m","a","c","r","o","\n","m","f","p"," ","a","i">>) >>,
      << EmptyObjectLine >> }

FolderInit ==
    /\ pc = "listing"
    /\ call \in [listing : StringsUpTo(FolderFiles, MaxFiles)]
    /\ ret = None
    /\ cursor = 0
    /\ comments = <<>>
    /\ diag = 0
    /\ fs = NoFs
    /\ json_data = <<>>
    /\ io = {}
    /\ exit_code = None

\* the next file of the listing: process_comments_from_file, then extend
FolderFile ==
    /\ pc = "listing"
    /\ cursor < Len(call.listing)
    /\ LET one == data_process_comments_from_file(call.listing[cursor + 1], BotAuthor)
       IN  /\ diag' = diag + one.diag
           /\ IF one.raised = None
              THEN /\ comments' = extend(comments, one.comments)
                   /\ cursor' = cursor + 1
                   /\ pc' = "listing"
                   /\ ret' = ret
              ELSE /\ pc' = "raised"
                   /\ ret' = one.raised
                   /\ UNCHANGED <<comments, cursor>>
    /\ UNCHANGED <<call, fs, json_data, io, exit_code>>

\* return all_comments
FolderReturn ==
    /\ pc = "listing"
    /\ cursor = Len(call.listing)
    /\ ret' = comments
    /\ pc' = "done"
    /\ UNCHANGED <<call, cursor, comments, diag, fs, json_data, io, exit_code>>

FolderNext == FolderFile \/ FolderReturn

SpecFolder == FolderInit /\ [][FolderNext]_vars

\* every fragment extracted from the files, in listing order, then line order
RECURSIVE AllFragments(_)
AllFragments(listing) ==
    IF listing = <<>>
    THEN <<>>
    ELSE Contributions(Head(listing), BotAuthor) \o AllFragments(Tail(listing))

\* C12: the folder result is the dual-set filter applied once to the
\* concatenation, in listing order, of every file's fragments in line order:
\* the fragments that satisfy the predicate, in order of first encounter, with
\* no reordering and no deduplication across files.
C12_FirstEncounterOrder ==
    pc \in {"listing", "done"} =>
        /\ comments = data_filter_comments(AllFragments(SubSeq(call.listing, 1, cursor)),
                                           DOMAIN_KEYWORDS, DOMAIN_FEATURE_KEYWORDS)
        /\ (pc = "done" => cursor = Len(call.listing) /\ ret = comments)

\* two files that both hold the fragment "mfp macro" have been processed: it
\* is in the result twice, in file order
C12_Witness ==
    /\ pc = "done"
    /\ Len(call.listing) = 2
    /\ call.listing[1] = << Record("alice", <<"m","f","p"," ","m","a","c","r","o","\n","h","e","l","l","o","\n","A","i"," ","M","F","P">>) >>
    /\ call.listing[2] = << Record("bob", <<"m","f","p"," ","m","a","c","r","o">>), MalformedLine, Record("bob", <<"m","a","c","r","o">>) >>
    /\ ret = << <<"m","f","p"," ","m","a","c","r","o">>, <<"A","i"," ","M","F","P">>, <<"m","f","p"," ","m","a","c","r","o">> >>


----------------------------------------------------------------------------
(* SpecFeature: process_comments_from_file of the dual-set script on a     *)
(* file of one record whose body names a domain keyword and one feature    *)
(* phrase of filter_constants.py                                           *)

\* the string literals between the brackets of DOMAIN_FEATURE_KEYWORDS, one
\* per literal as written, in source order
DOMAIN_FEATURE_KEYWORDS_literals ==
    << <<"m","a","c","r","o","n","u","t","r","i","e","n","t"," ","t","r","a","c","k","i","n","g">>,
       <<"m","a","c","r","o"," ","t","r","a","c","k","i","n","g">>,
       <<"m","a","c","r","o"," ","c","o","u","n","t","i","n","g">>,
       <<"m","a","c","r","o"," ","b","r","e","a","k","d","o","w","n">>,
       <<"m","a","c","r","o">>,
       <<"t","r","a","c","k"," ","m","a","c","r","o">>,
       <<"m","i","c","r","o","n","u","t","r","i","e","n","t"," ","t","r","a","c","k","i","n","g">>,
       <<"m","i","c","r","o"," ","t","r","a","c","k","i","n","g">>,
       <<"v","i","t","a","m","i","n"," ","t","r","a","c","k","i","n","g">>,
       <<"m","i","n","e","r","a","l"," ","t","r","a","c","k","i","n","g">>,
       <<"m","i","c","r","o","n","u","t","r","i","e","n","t">>,
       <<"m","i","c","r","o">>,
       <<"t","r","a","c","k"," ","m","i","c","r","o">>,
       <<"c","a","l","o","r","i","e"," ","c","o","u","n","t","i","n","g">>,
       <<"c","a","l","o","r","i","e"," ","t","r","a","c","k","i","n","g">>,
       <<"t","r","a","c","k"," ","c","a","l","o","r","i","e">>,
       <<"f","o","o","d"," ","l","o","g","g","i","n","g">>,
       <<"f","o","o","d"," ","l","o","g">>,
       <<"f","o","o","d"," ","e","n","t","r","y">>,
       <<"r","e","c","i","p","e"," ","e","n","t","r","y">>,
       <<"m","e","a","l"," ","e","n","t","r","y">>,
       <<"a","d","d"," ","r","e","c","i","p","e">>,
       <<"a","d","d"," ","f","o","o","d">>,
       <<"r","e","c","i","p","e"," ","l","o","g","g","i","n","g">>,
       <<"m","e","a","l"," ","l","o","g","g","i","n","g">>,
       <<"r","e","c","o","r","d"," ","f","o","o","d">>,
       <<"r","e","c","o","r","d"," ","r","e","c","i","p","e">>,
       <<"r","e","c","o","r","d"," ","m","e","a","l">>,
       <<"f","o","o","d"," ","d","i","a","r","y">>,
       <<"b","a","r","c","o","d","e"," ","s","c","a","n","n","i","n","g">>,
       <<"b","a","r","c","o","d","e"," ","s","c","a","n","n","e","r">>,
       <<"s","c","a","n","n","e","r">>,
       <<"b","a","r","c","o","d","e">>,
       <<"s","c","a","n","n","i","n","g">>,
       <<"d","a","t","a","b","a","s","e">>,
       <<"u","s","e","r"," ","s","u","b","m","i","t","t","e","d"," ","e","n","t","r","i","e","s">>,
       <<"e","n","t","r","i","e","s">>,
       <<"l","i","b","r","a","r","y">>,
       <<"f","o","o","d"," ","l","i","s","t">>,
       <<"m","e","a","l"," ","p","l","a","n","n","i","n","g">>,
       <<"m","e","a","l"," ","p","l","a","n">>,
       <<"p","l","a","n"," ","m","e","a","l","s">>,
       <<"d","i","a","r","y"," ","s","h","a","r","i","n","g">>,
       <<"i","n","t","a","k","e"," ","l","i","m","i","t">>,
       <<"c","a","l","o","r","i","e"," ","l","i","m","i","t">>,
       <<"d","a","i","l","y"," ","l","i","m","i","t">>,
       <<"w","e","e","k","l","y"," ","l","i","m","i","t">>,
       <<"e","x","e","r","c","i","s","e"," ","t","r","a","c","k","i","n","g">>,
       <<"w","o","r","k","o","u","t"," ","t","r","a","c","k","i","n","g">>,
       <<"e","x","e","r","c","i","s","e"," ","l","o","g","g","i","n","g">>,
       <<"w","o","r","k","o","u","t"," ","l","o","g","g","i","n","g">>,
       <<"f","i","t","n","e","s","s"," ","t","r","a","c","k","i","n","g">>,
       <<"t","r","a","c","k"," ","e","x","e","r","c","i","s","e">>,
       <<"t","r","a","c","k"," ","w","o","r","k","o","u","t">>,
       <<"w","e","i","g","h","t"," ","t","r","a","c","k","i","n","g">>,
       <<"w","e","i","g","h","t"," ","l","o","g">>,
       <<"w","e","i","g","h","t"," ","e","n","t","r","y">>,
       <<"w","e","i","g","h","t"," ","r","e","c","o","r","d","s">>,
       <<"t","r","a","c","k"," ","w","e","i","g","h","t">>,
       <<"w","a","t","e","r"," ","t","r","a","c","k","i","n","g">>,
       <<"t","r","a","c","k"," ","w","a","t","e","r">>,
       <<"g","o","a","l"," ","s","e","t","t","i","n","g">>,
       <<"s","e","t"," ","g","o","a","l","s">>,
       <<"s","e","t","t","i","n","g"," ","g","o","a","l","s">>,
       <<"c","u","s","t","o","m"," ","f","o","o","d">>,
       <<"c","r","e","a","t","e"," ","f","o","o","d">>,
       <<"c","u","s","t","o","m"," ","m","e","a","l">>,
       <<"c","r","e","a","t","e"," ","m","e","a","l">>,
       <<"c","u","s","t","o","m"," ","r","e","c","i","p","e">>,
       <<"r","e","c","i","p","e"," ","b","u","i","l","d","e","r">>,
       <<"c","r","e","a","t","e"," ","r","e","c","i","p","e">>,
       <<"c","u","s","t","o","m"," ","g","o","a","l","s">>,
       <<"g","o","a","l"," ","c","u","s","t","o","m","i","z","a","t","i","o","n">>,
       <<"c","r","e","a","t","e"," ","g","o","a","l","s">>,
       <<"c","u","s","t","o","m"," ","e","x","e","r","c","i","s","e","s">>,
       <<"c","u","s","t","o","m"," ","w","o","r","k","o","u","t","s">>,
       <<"w","o","r","k","o","u","t"," ","c","u","s","t","o","m","i","z","a","t","i","o","n">>,
       <<"e","x","e","r","c","i","s","e"," ","c","u","s","t","o","m","i","z","a","t","i","o","n">>,
       <<"d","a","i","l","y"," ","s","u","m","m","a","r","y">>,
       <<"w","e","e","k","l","y"," ","s","u","m","m","a","r","y">>,
       <<"d","a","i","l","y"," ","b","r","e","a","k","d","o","w","n">>,
       <<"w","e","e","k","l","y"," ","b","r","e","a","k","d","o","w","n">>,
       <<"a","c","t","i","v","i","t","y"," ","s","y","n","c","i","n","g">>,
       <<"a","p","p"," ","s","y","n","c">>,
       <<"a","p","p"," ","i","n","t","e","g","r","a","t","i","o","n">>,
       <<"s","o","c","i","a","l"," ","m","e","d","i","a">>,
       <<"f","r","i","e","n","d","s">>,
       <<"r","e","m","i","n","d","e","r","s">>,
       <<"s","l","e","e","p"," ","t","r","a","c","k","i","n","g">>,
       <<"t","r","a","c","k"," ","s","l","e","e","p">>,
       <<"s","t","e","p"," ","t","r","a","c","k","i","n","g">>,
       <<"s","t","e","p"," ","t","r","a","c","k","e","r">>,
       <<"t","r","a","c","k"," ","s","t","e","p">>,
       <<"c","a","l","o","r","i","e"," ","b","u","r","n">>,
       <<"h","e","a","l","t","h"," ","i","n","s","i","g","h","t","s">>,
       <<"n","u","t","r","i","t","i","o","n"," ","i","n","s","i","g","h","t","s">>,
       <<"n","u","t","r","i","t","i","o","n"," ","b","r","e","a","k","d","o","w","n">>,
       <<"n","u","t","r","i","t","i","o","n"," ","s","t","r","a","t","e","g","i","e","s">>,
       <<"s","t","a","t","s">>,
       <<"s","t","r","a","t","e","g","i","e","s">>,
       <<"d","a","t","a"," ","i","n","s","i","g","h","t","s">>,
       <<"r","e","p","o","r","t","s">>,
       <<"a","r","t","i","f","i","c","i","a","l"," ","i","n","t","e","l","l","i","g","e","n","c","e">>,
       <<"a","i">>,
       <<"A","I">>,
       <<"o","f","f","l","i","n","e"," ","m","o","d","e">>,
       <<"o","f","f","l","i","n","e">>,
       <<"i","n","t","e","r","m","i","t","t","e","n","t"," ","f","a","s","t","i","n","g"," ","t","i","m","e","r">>,
       <<"f","a","s","t","i","n","g"," ","t","i","m","e","r">>,
       <<"f","a","s","t","i","n","g"," ","s","c","h","e","d","u","l","e">>,
       <<"f","a","s","t","i","n","g"," ","t","r","a","c","k","e","r">>,
       <<"w","e","e","k","l","y"," ","c","h","a","l","l","e","n","g","e","s">>,
       <<"a","c","h","i","e","v","e","m","e","n","t","s">>,
       <<"s","t","r","e","a","k","s">>,
       <<"c","h","a","l","l","e","n","g","e","s">>,
       <<"d","a","i","l","y"," ","c","h","a","l","l","e","n","g","e","s">>,
       <<"s","t","r","e","a","k">> >>

\* the domain keywords the bodies are built with: the first of the tuple
MaxDomains == 2

\* the body of the record: the domain keyword and the literal, either first
FeatureBody(args) ==
    LET keyword == DOMAIN_KEYWORDS[args.domain]
        literal == DOMAIN_FEATURE_KEYWORDS_literals[args.literal]
    IN  IF args.literal_first
        THEN literal \o <<" ">> \o keyword
        ELSE keyword \o <<" ">> \o literal

FeatureInit ==
    /\ pc = "call"
    /\ call \in [domain : 1..MaxDomains,
                 literal : 1..Len(DOMAIN_FEATURE_KEYWORDS_literals),
                 literal_first : BOOLEAN]
    /\ ret = None
    /\ cursor = 0
    /\ comments = <<>>
    /\ diag = 0
    /\ fs = NoFs
    /\ json_data = <<>>
    /\ io = {}
    /\ exit_code = None

\* process_comments_from_file(file_path) on the file of that one record
FeatureCall ==
    /\ pc = "call"
    /\ LET file == << Record("alice", FeatureBody(call)) >>
           out  == data_process_comments_from_file(file, BotAuthor)
       IN  /\ ret' = out.comments
           /\ comments' = out.comments
           /\ diag' = out.diag
    /\ pc' = "done"
    /\ UNCHANGED <<call, cursor, fs, json_data, io, exit_code>>

FeatureNext == FeatureCall

SpecFeature == FeatureInit /\ [][FeatureNext]_vars

\* C14: for every string literal written in DOMAIN_FEATURE_KEYWORDS, a
\* fragment that holds a domain keyword and the literal as whole words is
\* retained by process_comments_from_file.
C14_EveryLiteralRetained ==
    pc = "done" => ret = << FeatureBody(call) >>

\* C14, for the literals that are elements of the tuple: those are retained.
C14_ElementsRetained ==
    ( /\ pc = "done"
      /\ DOMAIN_FEATURE_KEYWORDS_literals[call.literal] \in Range(DOMAIN_FEATURE_KEYWORDS) )
    => ret = << FeatureBody(call) >>

----------------------------------------------------------------------------
(* Spec: one run of the command-line script *)

MaxArchiveLines == 2

InDir == [comps |-> <<"in">>, trail |-> FALSE]

\* the input directory as given, plain or with a trailing separator
InputArgs == { InDir, [comps |-> <<"in">>, trail |-> TRUE] }

\* --output: absent, the input directory, a sibling of it, a directory under
\* another parent, a sibling with a trailing separator
OutputArgs ==
    { NoPath, InDir,
      [comps |-> <<"out">>, trail |-> FALSE],
      [comps |-> <<"other", "out">>, trail |-> FALSE],
      [comps |-> <<"out">>, trail |-> TRUE] }

\* --keywords, as the sequence of its values on the command line: absent, or
\* one two-word keyword and one one-word keyword
KeywordArgs == { <<>>, << <<"b"," ","a",",","c">> >> }

\* the lines an archive of the run may hold
ArchiveLines ==
    { Record("alice", <<"a"," ","b","\n"," ","c"," ">>), Record(BotAuthor, <<"c">>),
      MalformedLine, EmptyObjectLine }

\* what the input directory holds: a comments archive, alone, or beside a
\* submissions archive, an archive of neither kind and a file that is no
\* archive, or beside a second comments archive
InputListings ==
    LET dir == abspath(InDir)
        A(lines) == [dir |-> dir, name |-> <<"a","_","c","o","m","m","e","n","t","s",".","z","s","t">>, lines |-> lines]
        B == [dir |-> dir, name |-> <<"b","_","c","o","m","m","e","n","t","s",".","z","s","t">>, lines |-> <<Record("bob", <<"c"," ","b"," ","a">>)>>]
        S == [dir |-> dir, name |-> <<"b","_","s","u","b","m","i","s","s","i","o","n","s",".","z","s","t">>, lines |-> <<>>]
        X == [dir |-> dir, name |-> <<"c",".","z","s","t">>, lines |-> <<>>]
        N == [dir |-> dir, name |-> <<"n","o","t","e","s",".","t","x","t">>, lines |-> <<>>]
    IN  UNION { { {A(l)}, {A(l), S, X, N}, {A(l), B} } :
                l \in StringsUpTo(ArchiveLines, MaxArchiveLines) }

\* directories that exist beside the input directory: none, or the output
\* directory under the other parent with a comments directory of an earlier run
OtherDirs ==
    { {}, { <<"w", "other">>, <<"w", "other", "out">>, <<"w", "other", "out", "comments">> } }

InitialFileSystems ==
    { [dirs |-> {Cwd} \cup others, files |-> {}, out |-> {}] : others \in OtherDirs }
    \cup { [dirs |-> {Cwd, abspath(InDir)} \cup others, files |-> listing, out |-> {}] :
             others \in OtherDirs, listing \in InputListings }

Init ==
    /\ pc = "main"
    /\ call \in [input : InputArgs, output : OutputArgs, json_file_name : {<<>>, <<"r","e","s">>},
                 keywords : KeywordArgs, loose_match : BOOLEAN]
    /\ fs \in InitialFileSystems
    /\ ret = None
    /\ cursor = 0
    /\ comments = <<>>
    /\ diag = 0
    /\ json_data = <<>>
    /\ io = {}
    /\ exit_code = None

\* decompress_zst_files raises NameError; the script catches it: sys.exit(1)
DecompressRaises ==
    /\ pc = "main"
    /\ raises_NameError(fs, call.input)
    /\ ret' = "NameError"
    /\ exit_code' = 1
    /\ pc' = "exited"
    /\ UNCHANGED <<call, cursor, comments, diag, fs, json_data, io>>

\* decompress_zst_files(args.input, output_dir) returns
Decompress ==
    /\ pc = "main"
    /\ ~raises_NameError(fs, call.input)
    /\ fs' = decompress_zst_files(fs, call.input, main_output_dir(call))
    /\ io' = io \cup decompress_effects(fs, call.input, main_output_dir(call))
    /\ pc' = "extract"
    /\ UNCHANGED <<call, ret, cursor, comments, diag, json_data, exit_code>>

\* the files of a directory in the orders os.listdir may give them
Listings(dir) ==
    LET F == {f \in fs.files : f.dir = dir}
    IN  { l \in [1..Cardinality(F) -> F] : \A i, j \in 1..Cardinality(F) : i /= j => l[i] /= l[j] }

\* process_comments_from_folder(comments_dir) returns all_comments
ProcessFolder ==
    /\ pc = "extract"
    /\ exists(fs, main_comments_dir(call))
    /\ \E listing \in Listings(main_comments_dir(call)) :
          LET all == process_comments_from_folder(listing)
          IN  /\ all.raised = None
              /\ comments' = all.comments
              /\ json_data' = all.comments
              /\ diag' = all.diag
    /\ io' = io \cup {<<"read", f.dir, f.name>> :
                        f \in {g \in fs.files : g.dir = main_comments_dir(call)}}
    /\ pc' = "filter"
    /\ UNCHANGED <<call, ret, cursor, fs, exit_code>>

\* process_comments_from_folder raises: os.listdir finds no such directory
\* (FileNotFoundError), or a decoded line has no 'body' or no 'author'
\* (KeyError).  Nothing catches it: the interpreter ends with status 1.
ProcessFolderRaises ==
    /\ pc = "extract"
    /\ \/ /\ ~exists(fs, main_comments_dir(call))
          /\ ret' = "FileNotFoundError"
       \/ /\ exists(fs, main_comments_dir(call))
          /\ \E listing \in Listings(main_comments_dir(call)) :
                process_comments_from_folder(listing).raised /= None
          /\ ret' = "KeyError"
    /\ exit_code' = 1
    /\ pc' = "exited"
    /\ UNCHANGED <<call, cursor, comments, diag, fs, json_data, io>>

\* if args.keywords: json_data = filter_comments(json_data, args.keywords)
FilterKeywords ==
    /\ pc = "filter"
    /\ call.keywords /= <<>>
    /\ json_data' = filter_comments(json_data, _list_of_strings(call.keywords[1]), FALSE)
    /\ pc' = "write"
    /\ UNCHANGED <<call, ret, cursor, comments, diag, fs, io, exit_code>>

\* no --keywords: json_data is written as extracted
NoKeywords ==
    /\ pc = "filter"
    /\ call.keywords = <<>>
    /\ pc' = "write"
    /\ UNCHANGED <<call, ret, cursor, comments, diag, fs, json_data, io, exit_code>>

\* the output file is written, one fragment per line, and the script ends
WriteOutput ==
    /\ pc = "write"
    /\ LET dir  == abspath(main_output_dir(call))
           file == [dir |-> dir, name |-> json_file(call), text |-> json_data]
       IN  IF exists(fs, dir)
           THEN /\ fs' = [fs EXCEPT !.out = {o \in @ : o.dir /= dir \/ o.name /= file.name}
                                             \cup {file}]
                /\ io' = io \cup {<<"write", dir, file.name>>}
                /\ ret' = ret
                /\ exit_code' = 0
           ELSE /\ ret' = "FileNotFoundError"
                /\ exit_code' = 1
                /\ UNCHANGED <<fs, io>>
    /\ pc' = "exited"
    /\ UNCHANGED <<call, cursor, comments, diag, json_data>>

Next ==
    \/ DecompressRaises
    \/ Decompress
    \/ ProcessFolder
    \/ ProcessFolderRaises
    \/ FilterKeywords
    \/ NoKeywords
    \/ WriteOutput

Spec == Init /\ [][Next]_vars

\* C4: the matching policy follows the command line: with --keywords and
\* --loose_match the filter step retains by the loose policy (a fragment with
\* all the words of a keyword in any order is kept), without --loose_match by
\* the exact policy.
C4_LoosePolicySelected ==
    (pc = "write" /\ call.keywords /= <<>>) =>
        json_data = filter_comments(comments, _list_of_strings(call.keywords[1]),
                                    call.loose_match)

\* C9: if the input directory does not exist, the run ends at once with a
\* non-zero exit: no directory created, no archive read, no output written.
C9_MissingInputFailsFirst ==
    [][ (pc = "main" /\ ~exists(fs, abspath(call.input))) =>
            /\ pc' = "exited"
            /\ exit_code' \in Int /\ exit_code' /= 0
            /\ io' = {}
            /\ fs' = fs ]_vars

\* a run on a missing input directory has ended
C9_Witness ==
    /\ pc = "exited"
    /\ ~exists(fs, abspath(call.input))
    /\ ret = "NameError"
    /\ exit_code = 1
    /\ io = {}

\* C10: whenever the input directory exists the run goes through extraction,
\* filtering and writing and exits with status zero, whatever the lines of the
\* input hold.  Stated for the runs in which the script reads the directory
\* the archives were decompressed into.
C10_OnlyFatalCondition ==
    ( /\ pc = "exited"
      /\ exists(fs, abspath(call.input))
      /\ main_comments_dir(call) = decompress_comments_dir(call.input, main_output_dir(call)) )
    => exit_code = 0

\* C13: once decompress_zst_files has returned, the comments directory the
\* script passes to process_comments_from_folder is the directory the
\* decompressed comments files were written into, whatever the input and
\* output arguments.
C13_TargetIsSource ==
    pc = "extract" =>
        /\ main_comments_dir(call) = decompress_comments_dir(call.input, main_output_dir(call))
        /\ \A e \in io : e[1] = "write" => e[2] = main_comments_dir(call)

====
